---- MODULE Spec2Model ----
(***************************************************************************)
(* A model of ImageDownloader (src/main.py): one run() of the batch image  *)
(* downloader, as a state machine.  Strings are sequences of one-character *)
(* strings; an optional value is <<>> (None) or <<v>> (a value).            *)
(***************************************************************************)
EXTENDS Integers, Sequences, FiniteSets, TLC

VARIABLES
    pc,             \* position of run(): see PCs
    outcome,        \* how run() ended: "running" until it returns
    ssh_enabled,    \* config ssh_tunnel.enabled
    batch_size,     \* config batch_size
    ssh_tunnel,     \* self.ssh_tunnel: "None", "created", "started", "stopped"
    connection,     \* self.connection: "None", "open", "closed"
    stats,          \* self.stats
    total_batches,  \* run()'s local total_batches
    batch_num,      \* run()'s loop variable
    records,        \* process_batch()'s local records (the fetched page)
    i,              \* process_batch()'s loop index (1-based)
    image_url,      \* process_single_image()'s local image_url (optional)
    filepath,       \* process_single_image()'s local filepath
    fallback,       \* TRUE when generate_filename returned at line 217
    result,         \* outcome of process_single_image: "True", "False", "raised"
    files,          \* names present in output_dir
    files0,         \* names present in output_dir when the run started
    now,            \* int(time.time())
    \* history of the run (what the log file would show)
    close_db_calls, \* number of calls of close_db
    tunnel_stops,   \* number of ssh_tunnel.stop() calls
    conn_closes,    \* number of connection.close() calls
    count_log,      \* results of the count queries: "ok" or "error"
    fetch_log,      \* page fetches: [offset, limit, rows] with rows = -1 on error
    http_log,       \* FR_IDs for which requests.get was issued
    written,        \* paths returned by generate_filename and then written
    summary         \* TRUE once the final summary has been logged

vars == <<pc, outcome, ssh_enabled, batch_size, ssh_tunnel, connection, stats,
          total_batches, batch_num, records, i, image_url, filepath, fallback,
          result, files, files0, now, close_db_calls, tunnel_stops, conn_closes,
          count_log, fetch_log, http_log, written, summary>>

----------------------------------------------------------------------------
(* Bounds of the model *)

\* largest result of the count query
MaxTotal == 2
\* largest configured batch_size
MaxBatchSize == 2
\* largest random suffix explored (the source draws from 1000..9999)
MaxRandom == 1000
\* the clock of the run takes the values Epoch..Epoch+MaxClock
MaxClock == 0
\* int(time.time()) when the run starts
Epoch == 20000

(* Program constants *)

\* random.randint(1000, 9999): lower end
MinRandom == 1000
\* max_attempts of generate_filename
max_attempts == 100

----------------------------------------------------------------------------
(* Optional values and strings *)

None == <<>>
Some(v) == <<v>>

\* the characters str.strip() removes (those the model uses)
Whitespace == {" ", "\t", "\n"}

RECURSIVE LStrip(_)
LStrip(s) ==
    IF s # <<>> /\ Head(s) \in Whitespace THEN LStrip(Tail(s)) ELSE s

RECURSIVE RStrip(_)
RStrip(s) ==
    IF s # <<>> /\ s[Len(s)] \in Whitespace
    THEN RStrip(SubSeq(s, 1, Len(s) - 1))
    ELSE s

\* str.strip()
Strip(s) == RStrip(LStrip(s))

Digit(d) ==
    CASE d = 0 -> "0" [] d = 1 -> "1" [] d = 2 -> "2" [] d = 3 -> "3"
      [] d = 4 -> "4" [] d = 5 -> "5" [] d = 6 -> "6" [] d = 7 -> "7"
      [] d = 8 -> "8" [] d = 9 -> "9"

\* str(n) of a non-negative integer
RECURSIVE Str(_)
Str(n) == IF n < 10 THEN <<Digit(n)>> ELSE Str(n \div 10) \o <<Digit(n % 10)>>

\* str.lower()
Lower(c) == IF c = "P" THEN "p" ELSE c

----------------------------------------------------------------------------
(* Pure functions of ImageDownloader *)

s3_base_url == <<"h", "/">>

\* build_image_url: an optional path to an optional URL
build_image_url(img_path) ==
    IF img_path = None \/ img_path[1] = <<>>
    THEN None
    ELSE LET p == Strip(img_path[1])
             q == IF p # <<>> /\ Head(p) = "/" THEN Tail(p) ELSE p
         IN  Some(s3_base_url \o q)

\* urlparse(img_path).path: the query and the fragment are cut off
RECURSIVE UrlPath(_)
UrlPath(s) ==
    IF s = <<>> \/ Head(s) \in {"?", "#"} THEN <<>> ELSE <<Head(s)>> \o UrlPath(Tail(s))

\* index of the last occurrence of c in s, 0 when there is none
LastIndex(s, c) ==
    LET hits == {k \in 1..Len(s) : s[k] = c}
    IN  IF hits = {} THEN 0 ELSE CHOOSE k \in hits : \A h \in hits : h <= k

\* os.path.splitext(path)[1]
SplitExt(p) ==
    LET sep == LastIndex(p, "/")
        dot == LastIndex(p, ".")
    IN  IF dot > sep /\ \E k \in (sep + 1)..(dot - 1) : p[k] # "."
        THEN SubSeq(p, dot, Len(p))
        ELSE <<>>

\* extract_extension
extract_extension(img_path) ==
    IF img_path = None \/ img_path[1] = <<>>
    THEN <<"j", "p", "g">>
    ELSE LET ext == SplitExt(UrlPath(img_path[1]))
         IN  IF ext # <<>>
             THEN [k \in 1..(Len(ext) - 1) |-> Lower(ext[k + 1])]
             ELSE <<"j", "p", "g">>

Forbidden == {"\\", "/", "*", "?", ":", "\"", "<", ">", "|"}

\* sanitize_filename
sanitize_filename(name) ==
    IF name = <<>>
    THEN <<"u", "n", "k", "n", "o", "w", "n">>
    ELSE LET replaced == [k \in 1..Len(name) |->
                             IF name[k] \in Forbidden THEN "_" ELSE name[k]]
             stripped == Strip(replaced)
         IN  IF stripped = <<>>
             THEN <<"u", "n", "k", "n", "o", "w", "n">>
             ELSE stripped

\* the f-string of lines 209 and 216
FileName(fr_id, fr_nm, suffix, extension) ==
    fr_id \o <<"_">> \o fr_nm \o <<"_">> \o Str(suffix) \o <<".">> \o extension

\* the values generate_random_digits can return
RandomDigits == MinRandom..MaxRandom

\* generate_filename returning its first candidate without looking at the
\* directory
generate_filename_NoExistsCheck(fr_id, fr_nm, extension, dir, t) ==
    {[path |-> FileName(sanitize_filename(fr_id), sanitize_filename(fr_nm),
                        d, extension),
      fallback |-> FALSE] : d \in RandomDigits}

\* generate_filename: the set of [path, fallback] it can return with the
\* directory holding dir and the clock reading t.  Each of the max_attempts
\* draws is independent, so a free candidate can be returned whenever one
\* exists, and line 217 is reached when every draw hit an existing name.
generate_filename(fr_id, fr_nm, extension, dir, t) ==
    LET id == sanitize_filename(fr_id)
        nm == sanitize_filename(fr_nm)
        candidates == {FileName(id, nm, d, extension) : d \in RandomDigits}
        free == IF max_attempts >= 1 THEN candidates \ dir ELSE {}
        exhausted == max_attempts = 0 \/ candidates \cap dir # {}
    IN  {[path |-> c, fallback |-> FALSE] : c \in free}
        \cup IF exhausted
             THEN {[path |-> FileName(id, nm, t, extension), fallback |-> TRUE]}
             ELSE {}

----------------------------------------------------------------------------
(* The rows the store can return *)

Row(id, nm, img) == [FR_ID |-> id, FR_NM |-> nm, img |-> img]

\* a row with an image path, a row with a null path, one with an empty path
\* and one whose path is a tab (not empty for the TRIM of the query, blank
\* for str.strip)
Rows ==
    { Row(<<"1">>, <<"a">>, Some(<<"/", "a", ".", "P">>)),
      Row(<<"2">>, <<"/">>, None),
      Row(<<"3">>, <<"a">>, Some(<<>>)),
      Row(<<"4">>, <<" ">>, Some(<<"\t">>)) }

\* cursor.fetchall() of LIMIT offset, limit: at most limit rows, no row twice
Pages(limit) ==
    UNION { {p \in [1..n -> Rows] : \A j, k \in 1..n : p[j] = p[k] => j = k}
            : n \in 0..limit }

\* what output_dir can hold when the run starts
InitialDirs ==
    SUBSET {FileName(<<"1">>, <<"a">>, d, <<"p">>) : d \in RandomDigits}

PCs == {"start", "count", "batch", "row", "download", "filename", "save",
        "tally", "append", "done"}

\* the positions inside the try block of run() while rows and batches are
\* being processed
InTry == {"count", "batch", "row", "download", "filename", "save", "tally", "append"}

----------------------------------------------------------------------------
(* Initial state: __init__ *)

Init ==
    /\ pc = "start"
    /\ outcome = "running"
    /\ ssh_enabled \in BOOLEAN
    /\ batch_size \in 1..MaxBatchSize
    /\ ssh_tunnel = "None"
    /\ connection = "None"
    /\ stats = [total |-> 0, success |-> 0, failed |-> 0, failed_ids |-> <<>>]
    /\ total_batches = 0
    /\ batch_num = 0
    /\ records = <<>>
    /\ i = 0
    /\ image_url = None
    /\ filepath = <<>>
    /\ fallback = FALSE
    /\ result = "none"
    /\ files \in InitialDirs
    /\ files0 = files
    /\ now = Epoch
    /\ close_db_calls = 0
    /\ tunnel_stops = 0
    /\ conn_closes = 0
    /\ count_log = <<>>
    /\ fetch_log = <<>>
    /\ http_log = {}
    /\ written = {}
    /\ summary = FALSE

runVars == <<total_batches, batch_num, records, i>>
rowVars == <<image_url, filepath, fallback, result>>
envVars == <<ssh_enabled, batch_size, files0>>
diskVars == <<files, now, written>>
dbLogs == <<count_log, fetch_log>>
closeVars == <<ssh_tunnel, connection, close_db_calls, tunnel_stops, conn_closes>>

----------------------------------------------------------------------------
(* Connection *)

\* how connect_db can go: the tunnel object cannot be built, the tunnel
\* cannot be started, pymysql.connect raises, or everything works
ConnectOutcomes ==
    IF ssh_enabled
    THEN {"tunnel_ctor_raises", "tunnel_start_raises", "connect_raises", "ok"}
    ELSE {"connect_raises", "ok"}

\* connect_db with outcome o; it returns o = "ok"
connect_db(o) ==
    /\ ssh_tunnel' =
          IF ~ssh_enabled \/ o = "tunnel_ctor_raises" THEN "None"
          ELSE IF o = "tunnel_start_raises" THEN "created"
          ELSE "started"
    /\ connection' = IF o = "ok" THEN "open" ELSE "None"

\* close_db
close_db ==
    /\ connection' = IF connection # "None" THEN "closed" ELSE connection
    /\ conn_closes' = IF connection # "None" THEN conn_closes + 1 ELSE conn_closes
    /\ ssh_tunnel' = IF ssh_tunnel # "None" THEN "stopped" ELSE ssh_tunnel
    /\ tunnel_stops' = IF ssh_tunnel # "None" THEN tunnel_stops + 1 ELSE tunnel_stops
    /\ close_db_calls' = close_db_calls + 1

\* Connect with the result of connect_db ignored
Connect_IgnoresResult ==
    /\ pc = "start"
    /\ \E o \in ConnectOutcomes : connect_db(o)
    /\ pc' = "count"
    /\ UNCHANGED <<outcome, stats, runVars, rowVars, envVars, diskVars, dbLogs,
                   http_log, summary, close_db_calls, tunnel_stops, conn_closes>>

\* run(), lines 295-297: connect; on failure log and return
Connect ==
    /\ pc = "start"
    /\ \E o \in ConnectOutcomes :
          /\ connect_db(o)
          /\ IF o = "ok"
             THEN pc' = "count" /\ outcome' = outcome
             ELSE pc' = "done" /\ outcome' = "connect_failed"
    /\ UNCHANGED <<stats, runVars, rowVars, envVars, diskVars, dbLogs, http_log,
                   summary, close_db_calls, tunnel_stops, conn_closes>>

----------------------------------------------------------------------------
(* run(): count, batches, rows *)

\* the finally block of run() after the run ended as how
Finish(how) ==
    /\ close_db
    /\ outcome' = how
    /\ pc' = "done"

\* get_total_count without its except clause
get_total_count_NoHandler(r) == r

\* get_total_count: r is the count the query returns, -1 when it raises
get_total_count(r) == IF r = -1 THEN 0 ELSE r

\* the batch count rounded down
TotalBatches_RoundsDown(total_count, size) == total_count \div size

\* run(), line 308: the number of batches
TotalBatches(total_count, size) == (total_count + size - 1) \div size

\* run(), lines 300-309
GetTotalCount ==
    /\ pc = "count"
    /\ \E r \in -1..MaxTotal :
          LET total_count == get_total_count(r) IN
          /\ count_log' = Append(count_log, IF r = -1 THEN "error" ELSE "ok")
          /\ stats' = [stats EXCEPT !.total = total_count]
          /\ IF total_count = 0
             THEN /\ Finish("no_data")
                  /\ UNCHANGED <<total_batches, batch_num>>
             ELSE /\ total_batches' = TotalBatches(total_count, batch_size)
                  /\ batch_num' = 1
                  /\ pc' = "batch"
                  /\ UNCHANGED <<outcome, closeVars>>
    /\ UNCHANGED <<records, i, rowVars, envVars, diskVars, fetch_log, http_log, summary>>

\* fetch_franchisee_data: what the caller gets for the page the query
\* returned; page = None stands for the query raising
fetch_franchisee_data(page) == IF page = None THEN <<>> ELSE page[1]

\* leave the row loop of process_batch and return to the loop of run()
NextBatch ==
    /\ batch_num' = batch_num + 1
    /\ records' = <<>>
    /\ i' = 0
    /\ pc' = "batch"

\* FetchPage with the error of the page query ending the run
FetchPage_AbortsOnError ==
    /\ pc = "batch"
    /\ batch_num <= total_batches
    /\ fetch_log' = Append(fetch_log,
           [offset |-> (batch_num - 1) * batch_size, limit |-> batch_size,
            rows |-> -1])
    /\ Finish("error")
    /\ UNCHANGED <<stats, runVars, rowVars, envVars, diskVars, count_log,
                   http_log, summary>>

\* process_batch, lines 255-263, called from line 313
FetchPage ==
    /\ pc = "batch"
    /\ batch_num <= total_batches
    /\ \E page \in {None} \cup {Some(p) : p \in Pages(batch_size)} :
          LET offset == (batch_num - 1) * batch_size
              rows == fetch_franchisee_data(page)
          IN  /\ fetch_log' = Append(fetch_log,
                     [offset |-> offset, limit |-> batch_size,
                      rows |-> IF page = None THEN -1 ELSE Len(rows)])
              /\ IF rows = <<>>
                 THEN NextBatch
                 ELSE /\ records' = rows
                      /\ i' = 1
                      /\ pc' = "row"
                      /\ UNCHANGED batch_num
    /\ UNCHANGED <<outcome, stats, total_batches, rowVars, envVars, diskVars,
                   closeVars, count_log, http_log, summary>>

\* the record being processed
record == records[i]

\* process_single_image, lines 231-238
BuildUrl ==
    /\ pc = "row"
    /\ image_url' = build_image_url(record.img)
    /\ IF image_url' = None
       THEN result' = "False" /\ pc' = "tally"
       ELSE result' = result /\ pc' = "download"
    /\ UNCHANGED <<outcome, stats, runVars, filepath, fallback, envVars, diskVars,
                   closeVars, dbLogs, http_log, summary>>

\* process_single_image, lines 240-242, and download_image: the request is
\* sent; it yields the bytes, or None (a RequestException), or no bytes
DownloadImage ==
    /\ pc = "download"
    /\ http_log' = http_log \cup {record.FR_ID}
    /\ \E image_data \in {"bytes", "empty", "None"} :
          IF image_data = "bytes"
          THEN result' = result /\ pc' = "filename"
          ELSE result' = "False" /\ pc' = "tally"
    /\ UNCHANGED <<outcome, stats, runVars, image_url, filepath, fallback, envVars,
                   diskVars, closeVars, dbLogs, summary>>

\* process_single_image, lines 244-245
GenerateFilename ==
    /\ pc = "filename"
    /\ \E t \in now..(Epoch + MaxClock) :
       \E r \in generate_filename(record.FR_ID, record.FR_NM,
                                  extract_extension(record.img), files, t) :
          /\ now' = t
          /\ filepath' = r.path
          /\ fallback' = r.fallback
    /\ pc' = "save"
    /\ UNCHANGED <<outcome, stats, runVars, image_url, result, envVars, files,
                   written, closeVars, dbLogs, http_log, summary>>

\* process_single_image, lines 247-251, and save_image: the file is written,
\* or open() raises, or write() raises after open() created the file
SaveImage ==
    /\ pc = "save"
    /\ \E o \in {"written", "open_raises", "write_raises"} :
          /\ files' = IF o = "open_raises" THEN files ELSE files \cup {filepath}
          /\ written' = IF o = "written"
                        THEN written \cup {filepath}
                        ELSE written
          /\ result' = IF o = "written" THEN "True" ELSE "False"
    /\ pc' = "tally"
    /\ UNCHANGED <<outcome, stats, runVars, image_url, filepath, fallback, envVars,
                   now, closeVars, dbLogs, http_log, summary>>

\* RaiseInRow with the exception not caught by the row loop
RaiseInRow_Propagates ==
    /\ pc \in {"row", "download", "filename", "save"}
    /\ Finish("error")
    /\ UNCHANGED <<stats, runVars, rowVars, envVars, diskVars, dbLogs, http_log,
                   summary>>

\* an exception other than those the callee handles, raised inside
\* process_single_image and caught at line 280
RaiseInRow ==
    /\ pc \in {"row", "download", "filename", "save"}
    /\ result' = "raised"
    /\ pc' = "tally"
    /\ UNCHANGED <<outcome, stats, runVars, image_url, filepath, fallback, envVars,
                   diskVars, closeVars, dbLogs, http_log, summary>>

\* NextRow leaving the batch after its first row
NextRow_LeavesBatch ==
    /\ image_url' = None
    /\ filepath' = <<>>
    /\ fallback' = FALSE
    /\ result' = "none"
    /\ NextBatch

\* the end of one iteration of the row loop, lines 265 and 286
NextRow ==
    /\ image_url' = None
    /\ filepath' = <<>>
    /\ fallback' = FALSE
    /\ result' = "none"
    /\ IF i < Len(records)
       THEN /\ i' = i + 1
            /\ pc' = "row"
            /\ UNCHANGED <<batch_num, records>>
       ELSE NextBatch

\* Tally with the failure of a row not counted
Tally_FailureNotCounted ==
    /\ pc = "tally"
    /\ IF result = "True"
       THEN /\ stats' = [stats EXCEPT !.success = @ + 1]
            /\ NextRow
       ELSE /\ stats' = stats
            /\ pc' = "append"
            /\ UNCHANGED <<runVars, rowVars>>
    /\ UNCHANGED <<outcome, total_batches, envVars, diskVars, closeVars, dbLogs,
                   http_log, summary>>

\* process_batch, lines 269-274 and 280-283
Tally ==
    /\ pc = "tally"
    /\ IF result = "True"
       THEN /\ stats' = [stats EXCEPT !.success = @ + 1]
            /\ NextRow
       ELSE /\ stats' = [stats EXCEPT !.failed = @ + 1]
            /\ pc' = "append"
            /\ UNCHANGED <<runVars, rowVars>>
    /\ UNCHANGED <<outcome, total_batches, envVars, diskVars, closeVars, dbLogs,
                   http_log, summary>>

\* process_batch, lines 275 and 284
AppendFailedId ==
    /\ pc = "append"
    /\ stats' = [stats EXCEPT !.failed_ids = Append(@, record.FR_ID)]
    /\ NextRow
    /\ UNCHANGED <<outcome, total_batches, envVars, diskVars, closeVars, dbLogs,
                   http_log, summary>>

\* run(), lines 315-327 and the finally block
Complete ==
    /\ pc = "batch"
    /\ batch_num > total_batches
    /\ summary' = TRUE
    /\ Finish("completed")
    /\ UNCHANGED <<stats, runVars, rowVars, envVars, diskVars, dbLogs, http_log>>

\* KeyboardInterrupt with the cleanup left to the normal path only
KeyboardInterrupt_NoFinally ==
    /\ pc \in InTry
    /\ outcome' = "interrupted"
    /\ pc' = "done"
    /\ UNCHANGED <<stats, runVars, rowVars, envVars, diskVars, dbLogs, http_log,
                   summary, closeVars>>

\* run(), lines 329-330 and the finally block: the interrupt arrives while
\* rows and batches are being processed
KeyboardInterrupt ==
    /\ pc \in InTry
    /\ Finish("interrupted")
    /\ UNCHANGED <<stats, runVars, rowVars, envVars, diskVars, dbLogs, http_log,
                   summary>>

\* UnexpectedException with the summary logged on the way out
UnexpectedException_LogsSummary ==
    /\ pc = "batch"
    /\ summary' = TRUE
    /\ Finish("error")
    /\ UNCHANGED <<stats, runVars, rowVars, envVars, diskVars, dbLogs, http_log>>

\* run(), lines 332-335 and the finally block: an exception no inner handler
\* catches, raised by a statement of run() or of process_batch outside the
\* try of the row loop (log() is taken not to raise inside that try)
UnexpectedException ==
    /\ pc = "batch"
    /\ Finish("error")
    /\ UNCHANGED <<stats, runVars, rowVars, envVars, diskVars, dbLogs, http_log,
                   summary>>

Next ==
    \/ Connect
    \/ GetTotalCount
    \/ FetchPage
    \/ BuildUrl
    \/ DownloadImage
    \/ GenerateFilename
    \/ SaveImage
    \/ RaiseInRow
    \/ Tally
    \/ AppendFailedId
    \/ Complete
    \/ KeyboardInterrupt
    \/ UnexpectedException

Spec == Init /\ [][Next]_vars

----------------------------------------------------------------------------
(* Quantities the claims speak of *)

Tallied == stats.success + stats.failed

\* sum of the rows of the first n page fetches
RECURSIVE RowsFetched(_)
RowsFetched(n) ==
    IF n = 0 THEN 0
    ELSE RowsFetched(n - 1) + (IF fetch_log[n].rows < 0 THEN 0 ELSE fetch_log[n].rows)

Fetched == RowsFetched(Len(fetch_log))

Min(a, b) == IF a <= b THEN a ELSE b

\* the rows the count query promised for batch k
PromisedRows(k) == Min(batch_size, stats.total - (k - 1) * batch_size)

\* every page fetched so far returned exactly the rows the count promised
AllPagesAsCounted ==
    \A k \in 1..Len(fetch_log) : fetch_log[k].rows = PromisedRows(k)

Connected == pc # "start" /\ outcome # "connect_failed"

RowStages == {"row", "download", "filename", "save", "tally", "append"}

----------------------------------------------------------------------------
(* C1..C4 *)

\* C1: when connect_db succeeded, close_db runs exactly once before run()
\* returns, on every exit path: it has not run while run() is running, and
\* it has run once and closed the connection when run() has returned.
C1_CloseDbExactlyOnce ==
    /\ close_db_calls <= 1
    /\ (pc # "done") => close_db_calls = 0
    /\ (pc = "done" /\ Connected) =>
          /\ close_db_calls = 1
          /\ conn_closes = 1
          /\ connection = "closed"

\* C1 witness: a run interrupted in the middle of a batch has released the
\* connection once
C1_Witness ==
    /\ pc = "done"
    /\ outcome = "interrupted"
    /\ records # <<>>
    /\ i = 2
    /\ close_db_calls = 1
    /\ connection = "closed"

\* C2: every resource acquired during a run (the started tunnel, the opened
\* connection) has been released exactly once when run() has returned.
C2_AllReleased ==
    (pc = "done") =>
        /\ ssh_tunnel # "started"
        /\ connection # "open"
        /\ tunnel_stops <= 1
        /\ conn_closes <= 1

\* C3 as stated: success + failed <= total in every state, and equal to
\* total once all batches have completed.
C3_Original ==
    /\ Tallied <= stats.total
    /\ (pc = "done" /\ outcome = "completed") => Tallied = stats.total

\* C3 as amended: success + failed never exceeds total_batches * batch_size;
\* when every page returned exactly the rows the count promised for it,
\* success + failed <= total, with equality once all batches have completed.
C3_Amended ==
    /\ Tallied <= total_batches * batch_size
    /\ AllPagesAsCounted => Tallied <= stats.total
    /\ (AllPagesAsCounted /\ pc = "done" /\ outcome = "completed") =>
          Tallied = stats.total

\* C3 witness: a completed run of two batches whose pages were as counted
C3_Witness ==
    /\ pc = "done"
    /\ outcome = "completed"
    /\ AllPagesAsCounted
    /\ Len(fetch_log) = 2
    /\ stats.total = 2
    /\ stats.success = 1
    /\ stats.failed = 1

\* C4 as stated: when run() returns, however it ended, success + failed is
\* the number of rows the page fetches of the run returned.
C4_Original ==
    (pc = "done") => Tallied = Fetched

\* C4 as amended: every fetched row is tallied at most once, the rows of the
\* current page not yet reached being the only ones not tallied; when the
\* run completes normally success + failed is the number of rows fetched.
C4_Amended ==
    /\ Tallied <= Fetched
    /\ (pc \in RowStages \ {"append"}) => Tallied = Fetched - (Len(records) - i + 1)
    /\ (pc = "append") => Tallied = Fetched - (Len(records) - i)
    /\ (pc = "batch") => Tallied = Fetched
    /\ (pc = "done" /\ outcome = "completed") => Tallied = Fetched

\* C4 witness: a completed run that fetched an empty page and a page of rows
C4_Witness ==
    /\ pc = "done"
    /\ outcome = "completed"
    /\ Len(fetch_log) = 2
    /\ Fetched = 1
    /\ Tallied = 1

----------------------------------------------------------------------------
(* C5..C10 *)

\* the handler of a failed row counts it once and keeps the row loop going
C5_TallyStep ==
    (pc = "tally" /\ result # "True" /\ pc' # "done") =>
        /\ stats' = [stats EXCEPT !.failed = @ + 1]
        /\ pc' = "append"
        /\ i' = i /\ records' = records /\ batch_num' = batch_num

C5_AppendStep ==
    (pc = "append" /\ pc' # "done") =>
        /\ stats' = [stats EXCEPT !.failed_ids = Append(@, records[i].FR_ID)]
        /\ IF i < Len(records)
           THEN pc' = "row" /\ i' = i + 1 /\ records' = records
                /\ batch_num' = batch_num
           ELSE pc' = "batch" /\ batch_num' = batch_num + 1

\* a step of process_single_image leaves the stats alone and goes on to its
\* next stage or to the tally; only an interrupt ends the run from a row
C5_StageStep ==
    /\ (pc \in {"row", "download", "filename", "save"} /\ pc' # "done") =>
          /\ stats' = stats
          /\ pc' \in {"download", "filename", "save", "tally"}
          /\ (pc' = "tally" /\ pc # "save") => result' \in {"False", "raised"}
    /\ (pc \in RowStages /\ pc' = "done") => outcome' = "interrupted"

C5_Counted ==
    /\ (pc \in {"batch", "row", "download", "filename", "save", "tally"}) =>
          Len(stats.failed_ids) = stats.failed
    /\ (pc = "append") => Len(stats.failed_ids) = stats.failed - 1

\* C5: a row whose URL resolution, fetch or write fails or raises is counted
\* as failed once, its id is appended once to failed_ids, success is
\* unchanged, and the row loop goes on with the next row or the next batch.
C5_RowErrorsIsolated ==
    /\ [][C5_TallyStep /\ C5_AppendStep /\ C5_StageStep]_vars
    /\ []C5_Counted

\* C5 witness: the first row of a page, one with an image path, failed; it
\* is tallied and the second row is being processed
C5_Witness ==
    /\ pc = "row"
    /\ i = 2
    /\ records[1].FR_ID = <<"1">>
    /\ stats.failed = 1
    /\ stats.success = 0
    /\ stats.failed_ids = << <<"1">> >>

C6_State ==
    /\ summary <=> (pc = "done" /\ outcome = "completed")
    /\ (outcome \in {"interrupted", "error"}) =>
          /\ pc = "done"
          /\ ~summary
          /\ close_db_calls = 1
          /\ connection = "closed"
    /\ (outcome = "completed") =>
          /\ Len(fetch_log) = total_batches
          /\ batch_num = total_batches + 1

C6_AbortStep ==
    /\ (pc # "done" /\ outcome' \in {"interrupted", "error"}) =>
          /\ pc' = "done"
          /\ stats' = stats /\ fetch_log' = fetch_log /\ http_log' = http_log
          /\ files' = files /\ i' = i /\ batch_num' = batch_num
    /\ (pc = "done") => vars' = vars

C7_ConnectFailureAborts ==
    (pc # "start" /\ connection = "None") =>
        /\ pc = "done"
        /\ outcome = "connect_failed"
        /\ count_log = <<>>
        /\ fetch_log = <<>>
        /\ http_log = {}
        /\ written = {}
        /\ files = files0
        /\ records = <<>>
        /\ stats = [total |-> 0, success |-> 0, failed |-> 0, failed_ids |-> <<>>]
        /\ ~summary

\* C7 witness: a direct connection that failed
C7_Witness ==
    /\ pc = "done"
    /\ ~ssh_enabled
    /\ connection = "None"
    /\ outcome = "connect_failed"

\* a path that is null or empty after trimming
IsBlank(img_path) == img_path = None \/ Strip(img_path[1]) = <<>>

\* C8: for a row whose image path is null or empty after trimming the
\* resolver yields no URL, no request is issued and no file is written: the
\* row goes from resolution straight to the failure tally.
C8_BlankPathNeverRequested ==
    (pc \in RowStages \ {"row"} /\ IsBlank(record.img)) =>
        /\ image_url = None
        /\ pc \in {"tally", "append"}
        /\ result # "True"

\* C9 as stated: the path generate_filename returns does not exist when it
\* returns, and was not returned to an earlier call of the run that wrote it.
C9_Original ==
    (pc = "save") => (filepath \notin files /\ filepath \notin written)

\* C9 as amended: the property holds of a path returned by one of the
\* random-suffix attempts; the epoch-seconds fallback is not checked.
C9_Amended ==
    (pc = "save" /\ ~fallback) => (filepath \notin files /\ filepath \notin written)

\* C9 witness: a random-suffix path returned after an earlier file of the run
C9_Witness ==
    /\ pc = "save"
    /\ ~fallback
    /\ written # {}
    /\ filepath \notin files

C10_FailedPageStep ==
    (/\ Len(fetch_log') = Len(fetch_log) + 1
     /\ fetch_log'[Len(fetch_log')].rows = -1) =>
        /\ stats' = stats
        /\ http_log' = http_log
        /\ files' = files
        /\ records' = <<>>
        /\ pc' = "batch"
        /\ batch_num' = batch_num + 1
        /\ outcome' = "running"
        /\ close_db_calls' = 0

C10_Continues ==
    /\ (pc = "batch" /\ batch_num <= total_batches) => ENABLED FetchPage
    /\ (pc = "batch" /\ batch_num > total_batches) => ENABLED Complete
    /\ \A k \in 1..Len(fetch_log) :
          /\ fetch_log[k].offset = (k - 1) * batch_size
          /\ fetch_log[k].limit = batch_size
    /\ (pc = "done" /\ outcome = "completed") =>
          /\ Len(fetch_log) = total_batches
          /\ summary
          /\ connection = "closed"

\* C10: a failing page fetch is an empty batch: the stats are unchanged, no
\* row is processed, the loop moves to the next batch, and the run still
\* fetches every remaining batch in order and completes with the summary
\* and the connection released.
C10_FailedPageIsEmptyBatch ==
    /\ [][C10_FailedPageStep]_vars
    /\ []C10_Continues

\* C10 witness: a completed run whose first page fetch failed and whose
\* second returned a row
C10_Witness ==
    /\ pc = "done"
    /\ outcome = "completed"
    /\ Len(fetch_log) = 2
    /\ fetch_log[1].rows = -1
    /\ fetch_log[2].rows = 1
    /\ Tallied = 1
    /\ summary

----------------------------------------------------------------------------
(* C11..C12 *)

\* the state a run is in after the "no data" return of lines 304-306
C11_NoDataState ==
    /\ pc = "done"
    /\ outcome = "no_data"
    /\ stats = [total |-> 0, success |-> 0, failed |-> 0, failed_ids |-> <<>>]
    /\ fetch_log = <<>>
    /\ http_log = {}
    /\ written = {}
    /\ files = files0
    /\ records = <<>>
    /\ ~summary
    /\ close_db_calls = 1
    /\ connection = "closed"

\* the step of the count query: whether the query raised or counted no row,
\* the next state of the run is the same function of the current one
C11_CountStep ==
    (/\ pc = "count"
     /\ \/ count_log' = <<"error">>
        \/ count_log' = <<"ok">> /\ stats'.total = 0) =>
        /\ pc' = "done"
        /\ outcome' = "no_data"
        /\ stats' = [stats EXCEPT !.total = 0]
        /\ connection' = "closed"
        /\ ssh_tunnel' = (IF ssh_tunnel = "None" THEN "None" ELSE "stopped")
        /\ close_db_calls' = close_db_calls + 1
        /\ conn_closes' = conn_closes + 1
        /\ UNCHANGED <<runVars, rowVars, envVars, diskVars, fetch_log, http_log,
                       summary>>

\* C11: a count query that raises after a successful connect is taken as a
\* count of 0: total is 0, no page is fetched, no row processed, no summary
\* logged, the connection released; the step and the final state are those
\* of a run whose count query returned 0.
C11_CountErrorIsNoData ==
    /\ [][C11_CountStep]_vars
    /\ [](count_log # <<>> => Len(count_log) = 1)
    /\ []((count_log = <<"error">>) => C11_NoDataState)
    /\ []((count_log = <<"ok">> /\ stats.total = 0) => C11_NoDataState)

\* C11 witness: a run through a tunnel whose count query raised
C11_Witness ==
    /\ count_log = <<"error">>
    /\ pc = "done"
    /\ outcome = "no_data"
    /\ ssh_tunnel = "stopped"
    /\ connection = "closed"

\* ceil(a / b) for a >= 0 and b >= 1, from its definition
Ceil(a, b) == CHOOSE n \in 0..a : n * b >= a /\ (n - 1) * b < a

\* the page fetches so far are those of batches 1, 2, ... in order
C12_Sequential ==
    /\ \A k \in 1..Len(fetch_log) :
          /\ fetch_log[k].offset = (k - 1) * batch_size
          /\ fetch_log[k].limit = batch_size
          /\ fetch_log[k].offset < stats.total
    /\ \A j, k \in 1..Len(fetch_log) :
          fetch_log[j].offset = fetch_log[k].offset => j = k
    /\ Len(fetch_log) <= Ceil(stats.total, batch_size)
    /\ (pc = "batch") => Len(fetch_log) = batch_num - 1
    /\ (pc \in RowStages) => Len(fetch_log) = batch_num

\* C12: a run that completes normally has issued exactly
\* ceil(total_count / batch_size) page fetches, batch k at offset
\* (k-1)*batch_size with limit batch_size, in increasing order, no offset
\* twice and none at or beyond total_count; 125 rows in batches of 50 make
\* 3 batches.
C12_PageFetches ==
    /\ C12_Sequential
    /\ (pc = "done" /\ outcome = "completed") =>
          /\ stats.total >= 1
          /\ total_batches = Ceil(stats.total, batch_size)
          /\ Len(fetch_log) = total_batches
    /\ TotalBatches(125, 50) = 3

\* C12 witness: a completed run of two batches of one row
C12_Witness ==
    /\ pc = "done"
    /\ outcome = "completed"
    /\ stats.total = 2
    /\ batch_size = 1
    /\ Len(fetch_log) = 2
    /\ fetch_log[1].offset = 0
    /\ fetch_log[2].offset = 1

====
